---- MODULE Spec2Model ----
\* A model of equeue.c: the chunk allocator (slab + size-sorted freelist),
\* the timed queue with sibling buckets and back-pointers, the id protocol
\* of post/cancel, and the dispatch loop with its semaphore and breaks.
\*
\* Memory is an arena ev of event headers indexed by byte offset in the
\* buffer.  A pointer to an event is its offset, NULL the null pointer.
\* A pointer to a link slot is a pair <<kind, offset>>: the queue head, the
\* freelist head, dequeue's local head, or the next / sibling field of the
\* event at an offset.
\*
\* The dispatcher is one thread, modelled statement by statement where it
\* runs without a lock; post, cancel, break, alloc, dealloc and the tick
\* belong to other threads (or to a running callback) and interleave with
\* the dispatcher's steps.
EXTENDS Integers, Sequences, FiniteSets, TLC

\* ------------------------------------------------------------------------
\* Sizes.  int and unsigned are IntBits wide (scaled down so that the
\* wrap of the tick and of the generation are reached).
IntBits == 7
HeaderSize == 2
WordSize == 2
BufSize == 12

\* Bounds of the exploration.
MaxPosts == 3
MaxElapsed == 1
MaxBreaks == 1
MaxSema == 1
MaxDelay == 1
MaxPeriod == 0
MaxDispatchMs == 1
MaxApiPosts == 2
MaxHeld == 1
MaxBreakPosts == 1
MaxBreakCalls == 2
MaxReusePosts == 4
MaxNulls == 1
MaxPayload == 4
MaxMemHeld == 3
MaxMemPosts == 1
MaxDiscardPosts == 2
MaxCyclePosts == 4
MaxDestroyPosts == 2
MaxPeriodicPosts == 2

TickMod == 2 ^ IntBits
HalfRange == 2 ^ (IntBits - 1)
StartTick == TickMod - 1

NULL == -1

PayloadSizes == {2}
MemSizes == 1 .. MaxPayload
Delays == 0 .. MaxDelay
Periods == 0 .. MaxPeriod
DispatchMs == {-1, MaxDispatchMs}

\* Link slots.
QSlot == <<"queue", NULL>>
CSlot == <<"chunks", NULL>>
HSlot == <<"head", NULL>>
USlot == <<"uninit", NULL>>
NextOf(c) == <<"next", c>>
SiblingOf(c) == <<"sibling", c>>

\* ------------------------------------------------------------------------
\* Machine arithmetic.

\* unsigned -> int conversion, as in (int)(a - b) and in the int field target
ToInt(u) == IF u % TickMod >= HalfRange THEN (u % TickMod) - TickMod ELSE u % TickMod

\* int -> unsigned conversion
ToUnsigned(i) == (i + TickMod) % TickMod

equeue_tickdiff(a, b) == ToInt(ToUnsigned(a) - ToUnsigned(b) + TickMod)

\* x >> n on an int: arithmetic shift (floor division)
Shr(x, n) == IF x >= 0 THEN x \div (2 ^ n) ELSE -((-x + (2 ^ n) - 1) \div (2 ^ n))

RECURSIVE Npw2Of(_)
Npw2Of(s) == IF s = 0 THEN 0 ELSE 1 + Npw2Of(s \div 2)

npw2 == Npw2Of(BufSize)

equeue_incid(id) == IF Shr(id + 1, IntBits - 1 - npw2) # 0 THEN 1 ELSE id + 1

\* (e->id << npw2) | offset in an int, for offset < 2^npw2
MakeHandle(id, off) == ToInt(id * (2 ^ npw2) + off)

\* id & ((1 << npw2) - 1)
HandleOffset(h) == h % (2 ^ npw2)

RoundSize(n) == ((n + HeaderSize + WordSize - 1) \div WordSize) * WordSize

\* ------------------------------------------------------------------------
\* Memory: M = [ev, queue, chunks, head, ok].  ok = FALSE records that the
\* operation did not return (a walk that never ends, a store through a wild
\* pointer).

Load(M, s) ==
    CASE s[1] = "queue" -> M.queue
      [] s[1] = "chunks" -> M.chunks
      [] s[1] = "head" -> M.head
      [] s[1] = "next" -> M.ev[s[2]].next
      [] s[1] = "sibling" -> M.ev[s[2]].sibling
      [] OTHER -> NULL

Store(M, s, v) ==
    CASE s[1] = "queue" -> [M EXCEPT !.queue = v]
      [] s[1] = "chunks" -> [M EXCEPT !.chunks = v]
      [] s[1] = "head" -> [M EXCEPT !.head = v]
      [] s[1] = "next" -> [M EXCEPT !.ev[s[2]].next = v]
      [] s[1] = "sibling" -> [M EXCEPT !.ev[s[2]].sibling = v]
      [] OTHER -> [M EXCEPT !.ok = FALSE]

\* More iterations than there are events: the walk is in a cycle.
Fuel == BufSize

HangSlot == <<"hang", NULL>>

\* ------------------------------------------------------------------------
\* equeue_enqueue

RECURSIVE enqueue_walk(_, _, _, _)
enqueue_walk(M, p, e, fuel) ==
    LET x == Load(M, p) IN
    IF x # NULL /\ equeue_tickdiff(M.ev[x].target, M.ev[e].target) < 0
    THEN IF fuel = 0 THEN HangSlot ELSE enqueue_walk(M, NextOf(x), e, fuel - 1)
    ELSE p

\* the statements after the walk, in program order, each on the memory A
\* the previous one left
enqueue_link(M, p, e) ==
    LET \* (*p)->ref = &e->sibling; e->sibling = *p;
        a1(A) == [A EXCEPT !.ev[Load(A, p)].ref = SiblingOf(e)]
        a2(A) == [A EXCEPT !.ev[e].sibling = Load(A, p)]
        \* if ((*p)->next) (*p)->next->ref = &e->next; e->next = (*p)->next;
        a3(A) == IF A.ev[Load(A, p)].next # NULL
                 THEN [A EXCEPT !.ev[A.ev[Load(A, p)].next].ref = NextOf(e)]
                 ELSE A
        a4(A) == [A EXCEPT !.ev[e].next = A.ev[Load(A, p)].next]
        \* if (*p) (*p)->ref = &e->next; e->next = *p; e->sibling = 0;
        b1(A) == IF Load(A, p) # NULL
                 THEN [A EXCEPT !.ev[Load(A, p)].ref = NextOf(e)]
                 ELSE A
        b2(A) == [A EXCEPT !.ev[e].next = Load(A, p)]
        b3(A) == [A EXCEPT !.ev[e].sibling = NULL]
        \* e->ref = p; *p = e;
        c1(A) == Store([A EXCEPT !.ev[e].ref = p], p, e)
    IN  IF Load(M, p) # NULL /\ M.ev[Load(M, p)].target = M.ev[e].target
        THEN c1(a4(a3(a2(a1(M)))))
        ELSE c1(b3(b2(b1(M))))

equeue_enqueue(M, e, ms, now) ==
    LET at(A, p) == IF p = HangSlot THEN [A EXCEPT !.ok = FALSE]
                    ELSE enqueue_link(A, p, e)
        walk(A) == at(A, enqueue_walk(A, QSlot, e, Fuel))
    IN  walk([M EXCEPT !.ev[e].target = ToInt(now + ToUnsigned(ms))])

\* ------------------------------------------------------------------------
\* equeue_unqueue

equeue_unqueue(M, e) ==
    LET \* if (e->next) e->next->ref = &e->sibling->next;
        a1(A) == IF A.ev[e].next # NULL
                 THEN [A EXCEPT !.ev[A.ev[e].next].ref = NextOf(A.ev[e].sibling)]
                 ELSE A
        \* e->sibling->next = e->next; e->sibling->ref = e->ref; *e->ref = e->sibling;
        a2(A) == [A EXCEPT !.ev[A.ev[e].sibling].next = A.ev[e].next]
        a3(A) == [A EXCEPT !.ev[A.ev[e].sibling].ref = A.ev[e].ref]
        a4(A) == Store(A, A.ev[e].ref, A.ev[e].sibling)
        \* if (e->next) e->next->ref = e->ref; *e->ref = e->next;
        b1(A) == IF A.ev[e].next # NULL
                 THEN [A EXCEPT !.ev[A.ev[e].next].ref = A.ev[e].ref]
                 ELSE A
        b2(A) == Store(A, A.ev[e].ref, A.ev[e].next)
    IN  IF M.ev[e].sibling # NULL THEN a4(a3(a2(a1(M)))) ELSE b2(b1(M))

\* ------------------------------------------------------------------------
\* equeue_dequeue

\* for (e = es; e; e = e->sibling) { e->next = prev; prev = e; }
RECURSIVE dequeue_reverse(_, _, _, _)
dequeue_reverse(M, e, prev, fuel) ==
    IF e = NULL THEN [M |-> M, prev |-> prev]
    ELSE IF fuel = 0 THEN [M |-> [M EXCEPT !.ok = FALSE], prev |-> prev]
    ELSE dequeue_reverse([M EXCEPT !.ev[e].next = prev], M.ev[e].sibling, e, fuel - 1)

\* the while (q->queue) loop; returns [M, deadline]
RECURSIVE dequeue_loop(_, _, _, _, _)
dequeue_loop(M, target, tail, deadline, fuel) ==
    LET \* *tail = prev; tail = &es->next;
        splice(r, es) ==
            IF ~r.M.ok THEN [M |-> r.M, deadline |-> deadline]
            ELSE dequeue_loop(Store(r.M, tail, r.prev), target, NextOf(es),
                              deadline, fuel - 1)
        \* es = q->queue; q->queue = es->next; the bucket reversed
        bucket(es) ==
            splice(dequeue_reverse([M EXCEPT !.queue = M.ev[es].next], es, NULL, Fuel), es)
        test(diff) ==
            IF diff > 0 THEN [M |-> M, deadline |-> diff]
            ELSE IF fuel = 0 THEN [M |-> [M EXCEPT !.ok = FALSE], deadline |-> deadline]
            ELSE bucket(M.queue)
    IN  IF M.queue = NULL THEN [M |-> M, deadline |-> deadline]
        ELSE test(equeue_tickdiff(M.ev[M.queue].target, target))

\* returns [M, head, deadline]
equeue_dequeue(M, deadline, now) ==
    LET \* if (q->queue) q->queue->ref = &q->queue;
        fix(A) == IF A.ok /\ A.queue # NULL
                  THEN [A EXCEPT !.ev[A.queue].ref = QSlot] ELSE A
        out(A, d) == [M |-> A, head |-> A.head, deadline |-> d]
        done(r) == out(fix(r.M), r.deadline)
    IN  done(dequeue_loop([M EXCEPT !.head = NULL], now, HSlot, deadline, Fuel))

\* for (e = es; e; e = e->next) e->id = -e->id;
RECURSIVE mark_inflight(_, _, _)
mark_inflight(M, e, fuel) ==
    IF e = NULL THEN M
    ELSE IF fuel = 0 THEN [M EXCEPT !.ok = FALSE]
    ELSE mark_inflight([M EXCEPT !.ev[e].id = -M.ev[e].id], M.ev[e].next, fuel - 1)

\* ------------------------------------------------------------------------
\* equeue_mem_alloc / equeue_mem_dealloc

\* mem_alloc_walk with (*p)->size > size
RECURSIVE mem_alloc_walk_strict(_, _, _, _)
mem_alloc_walk_strict(M, p, size, fuel) ==
    LET x == Load(M, p) IN
    IF x = NULL \/ M.ev[x].size > size THEN p
    ELSE IF fuel = 0 THEN HangSlot
    ELSE mem_alloc_walk_strict(M, NextOf(x), size, fuel - 1)

\* first slot p on the freelist with (*p)->size >= size, or the slot holding NULL
RECURSIVE mem_alloc_walk(_, _, _, _)
mem_alloc_walk(M, p, size, fuel) ==
    LET x == Load(M, p) IN
    IF x = NULL \/ M.ev[x].size >= size THEN p
    ELSE IF fuel = 0 THEN HangSlot
    ELSE mem_alloc_walk(M, NextOf(x), size, fuel - 1)

RECURSIVE mem_dealloc_walk(_, _, _, _)
mem_dealloc_walk(M, p, e, fuel) ==
    LET x == Load(M, p) IN
    IF x # NULL /\ M.ev[x].size < M.ev[e].size
    THEN IF fuel = 0 THEN HangSlot ELSE mem_dealloc_walk(M, NextOf(x), e, fuel - 1)
    ELSE p

equeue_mem_dealloc(M, e) ==
    LET \* e->sibling = *p; e->next = (*p)->next;
        a1(A, p) == [A EXCEPT !.ev[e].sibling = Load(A, p)]
        a2(A, p) == [A EXCEPT !.ev[e].next = A.ev[Load(A, p)].next]
        \* e->sibling = 0; e->next = *p;
        b1(A) == [A EXCEPT !.ev[e].sibling = NULL]
        b2(A, p) == [A EXCEPT !.ev[e].next = Load(A, p)]
        \* *p = e;
        at(p) == IF p = HangSlot THEN [M EXCEPT !.ok = FALSE]
                 ELSE IF Load(M, p) # NULL /\ M.ev[Load(M, p)].size = M.ev[e].size
                 THEN Store(a2(a1(M, p), p), p, e)
                 ELSE Store(b2(b1(M), p), p, e)
    IN  at(mem_dealloc_walk(M, CSlot, e, Fuel))

\* returns [M, e, slab]; e = NULL when neither the freelist nor the slab fits
equeue_mem_alloc(M, sl, n) ==
    LET \* *p = e->sibling; (*p)->next = e->next;
        promote(A, e, p) == [A EXCEPT !.ev[Load(A, p)].next = A.ev[e].next]
        take(e, p) == IF M.ev[e].sibling # NULL
                      THEN promote(Store(M, p, M.ev[e].sibling), e, p)
                      ELSE Store(M, p, M.ev[e].next)
        \* e->size = size; e->id = 1; the other fields are not written
        fresh(size) == [size |-> size, id |-> 1, target |-> 0, period |-> 0,
                        cb |-> 0, dtor |-> 0, ran |-> 0,
                        next |-> NULL, sibling |-> NULL, ref |-> USlot]
        carve(size) ==
            IF sl.size >= size
            THEN [M |-> [M EXCEPT !.ev = (sl.data :> fresh(size)) @@ M.ev],
                  e |-> sl.data,
                  slab |-> [data |-> sl.data + size, size |-> sl.size - size]]
            ELSE [M |-> M, e |-> NULL, slab |-> sl]
        at(p, size) ==
            IF p = HangSlot THEN [M |-> [M EXCEPT !.ok = FALSE], e |-> NULL, slab |-> sl]
            ELSE IF Load(M, p) # NULL
            THEN [M |-> take(Load(M, p), p), e |-> Load(M, p), slab |-> sl]
            ELSE carve(size)
        find(size) == at(mem_alloc_walk(M, CSlot, size, Fuel), size)
    IN  find(RoundSize(n))

\* ------------------------------------------------------------------------
\* State.

VARIABLES
    ev,         \* the event headers carved so far, by offset in the buffer
    queue,      \* q->queue
    chunks,     \* q->chunks
    slab,       \* q->slab: [data (offset), size]
    breaks,     \* q->breaks
    sema,       \* q->eventsema: pending signals
    tick,       \* equeue_tick()
    dp,         \* the dispatcher thread: its position and locals
    held,       \* chunks a caller got from equeue_alloc and has not posted
    hung,       \* the operation that did not return, or "none"
    posts,      \* history: the postings made so far
    bstat,      \* history: calls of equeue_break, returns of dispatch by break
    elapsed,    \* history: ticks since the start
    nulls,      \* history: null returns of equeue_alloc, modulo MaxNulls + 1
    alive       \* equeue_destroy has not been called

vars == <<ev, queue, chunks, slab, breaks, sema, tick, dp, held, hung, posts, bstat, elapsed,
         nulls, alive>>

Mem == [ev |-> ev, queue |-> queue, chunks |-> chunks, head |-> NULL, ok |-> TRUE]

\* the memory after an operation, or the operation did not return
Commit(M, op) ==
    /\ ev' = IF M.ok THEN M.ev ELSE ev
    /\ queue' = IF M.ok THEN M.queue ELSE queue
    /\ chunks' = IF M.ok THEN M.chunks ELSE chunks
    /\ hung' = IF M.ok THEN "none" ELSE op

Running == hung = "none" /\ alive

Idle == [pc |-> "idle", ms |-> -1, timeout |-> 0, es |-> NULL, e |-> NULL,
         cb |-> 0, deadline |-> -1, per |-> -1, wstart |-> 0, obs |-> {}]

Init ==
    /\ ev = <<>>
    /\ queue = NULL
    /\ chunks = NULL
    /\ slab = [data |-> 0, size |-> BufSize]
    /\ breaks = 0
    /\ sema = 0
    /\ tick = StartTick
    /\ dp = Idle
    /\ held = {}
    /\ hung = "none"
    /\ posts = <<>>
    /\ bstat = [calls |-> 0, rets |-> 0]
    /\ elapsed = 0
    /\ nulls = 0
    /\ alive = TRUE

\* a signal is never lost; signals beyond MaxSema pending ones are merged
equeue_sema_signal(s) == IF s < MaxSema THEN s + 1 ELSE s

\* ------------------------------------------------------------------------
\* Operations of the other threads (and of running callbacks).

equeue_tick ==
    /\ Running
    /\ tick' = (tick + 1) % TickMod
    /\ elapsed' = elapsed + 1
    /\ UNCHANGED <<ev, queue, chunks, slab, breaks, sema, dp, held, hung, posts, bstat, nulls, alive>>

\* equeue_alloc: returns [M, e, slab]
alloc_mem(M, sl, n) ==
    LET \* e->target = 0; e->period = -1; e->dtor = 0;
        \* (ran, history: the runs of the destructor since this alloc)
        init(r) == IF r.e = NULL \/ ~r.M.ok THEN r
                   ELSE [r EXCEPT !.M = [r.M EXCEPT !.ev[r.e].target = 0,
                                                    !.ev[r.e].period = -1,
                                                    !.ev[r.e].dtor = 0,
                                                    !.ev[r.e].ran = 0]]
    IN  init(equeue_mem_alloc(M, sl, n))

\* equeue_dealloc: if (e->dtor) e->dtor(e+1); equeue_mem_dealloc(q, e);
dealloc_mem(M, e) ==
    equeue_mem_dealloc(IF M.ev[e].dtor # 0
                       THEN [M EXCEPT !.ev[e].ran = IF @ < 2 THEN @ + 1 ELSE @]
                       ELSE M, e)

equeue_event_delay(M, e, ms) == [M EXCEPT !.ev[e].target = ms]

equeue_event_period(M, e, ms) == [M EXCEPT !.ev[e].period = ms]

equeue_event_dtor(M, e, dtor) == [M EXCEPT !.ev[e].dtor = dtor]

\* (e->id << npw2) | offset
post_id(M, e) == MakeHandle(M.ev[e].id, e)

\* equeue_post; cb is the callback posted
post_mem(M, e, cb, now) ==
    LET go(A) == IF A.ev[e].target < 0 THEN dealloc_mem(A, e)
                 ELSE equeue_enqueue(A, e, A.ev[e].target, now)
    IN  go([M EXCEPT !.ev[e].cb = cb])

\* The history of a post: the callback posted by the k-th post is k.
Posted(M, e) ==
    Append(posts, [h |-> post_id(M, e), e |-> e,
                   due |-> ToInt(tick + ToUnsigned(M.ev[e].target)),
                   oneshot |-> M.ev[e].period < 0,
                   discard |-> M.ev[e].target < 0,
                   fired |-> 0, cancelled |-> FALSE])

equeue_alloc(n) ==
    /\ Running
    /\ LET got(r) ==
               /\ Commit(r.M, "alloc")
               /\ slab' = IF r.M.ok THEN r.slab ELSE slab
               /\ held' = IF r.M.ok /\ r.e # NULL THEN held \cup {r.e} ELSE held
               /\ nulls' = IF r.M.ok /\ r.e = NULL THEN (nulls + 1) % (MaxNulls + 1)
                           ELSE nulls
       IN  got(alloc_mem(Mem, slab, n))
    /\ UNCHANGED <<breaks, sema, tick, dp, posts, bstat, elapsed, alive>>

equeue_dealloc(c) ==
    /\ Running
    /\ c \in held
    /\ Commit(dealloc_mem(Mem, c), "dealloc")
    /\ held' = IF hung' # "none" THEN held ELSE held \ {c}
    /\ UNCHANGED <<slab, breaks, sema, tick, dp, posts, bstat, elapsed, nulls, alive>>

equeue_post(c) ==
    /\ Running
    /\ c \in held
    /\ LET done(A) ==
               /\ Commit(A, "post")
               /\ sema' = IF A.ok /\ ev[c].target >= 0 THEN equeue_sema_signal(sema) ELSE sema
               /\ held' = IF A.ok THEN held \ {c} ELSE held
               /\ posts' = IF A.ok THEN Posted(Mem, c) ELSE posts
       IN  done(post_mem(Mem, c, Len(posts) + 1, tick))
    /\ UNCHANGED <<slab, breaks, tick, dp, bstat, elapsed, nulls, alive>>

\* equeue_call_in (period < 0) and equeue_call_every (period = delay):
\* alloc, event_delay, event_period, post by one caller
call_post(n, delay, period) ==
    /\ Running
    /\ LET done(r, A, B) ==
               /\ Commit(B, "post")
               /\ slab' = IF B.ok THEN r.slab ELSE slab
               /\ sema' = IF B.ok /\ delay >= 0 THEN equeue_sema_signal(sema) ELSE sema
               /\ posts' = IF B.ok THEN Posted(A, r.e) ELSE posts
           post(r, A) == done(r, A, post_mem(A, r.e, Len(posts) + 1, tick))
           setup(r) ==
               /\ r.e # NULL
               /\ r.M.ok
               /\ post(r, equeue_event_period(equeue_event_delay(r.M, r.e, delay),
                                              r.e, period))
       IN  setup(alloc_mem(Mem, slab, n))
    /\ UNCHANGED <<breaks, tick, dp, held, bstat, elapsed, nulls, alive>>

equeue_call_in(ms) == call_post(2, ms, -1)

equeue_call_every(ms) == call_post(2, ms, ms)

Handles == {posts[k].h : k \in 1 .. Len(posts)}

\* the slots a wild e->ref may designate
RefChoices(M, e) ==
    IF M.ev[e].ref # USlot THEN {M.ev[e].ref}
    ELSE {QSlot, USlot} \cup {NextOf(c) : c \in DOMAIN M.ev}
                        \cup {SiblingOf(c) : c \in DOMAIN M.ev}

\* equeue_cancel with e->ref = r
cancel_mem(M, id, r) ==
    LET e == HandleOffset(id)
        \* equeue_dealloc(q, e+1);
        retire(A) == IF A.ok THEN dealloc_mem(A, e) ELSE A
        \* e->id = equeue_incid(q, e->id);
        bump(A) == retire([A EXCEPT !.ev[e].id = equeue_incid(A.ev[e].id)])
        \* if (e->id != id >> q->npw2) return; equeue_unqueue(q, e);
        queued(A) == IF A.ev[e].id # Shr(id, npw2) THEN A
                     ELSE bump(equeue_unqueue([A EXCEPT !.ev[e].ref = r], e))
        \* if (e->id == -id >> q->npw2) { e->cb = 0; e->period = -1; }
        inflight(A) == IF A.ev[e].id = Shr(-id, npw2)
                       THEN [A EXCEPT !.ev[e].cb = 0, !.ev[e].period = -1]
                       ELSE A
    IN  queued(inflight(M))

equeue_cancel(id) ==
    /\ Running
    /\ id \in Handles
    /\ \E r \in RefChoices(Mem, HandleOffset(id)) :
           Commit(cancel_mem(Mem, id, r), "cancel")
    /\ posts' = IF hung' # "none" THEN posts
                ELSE [k \in 1 .. Len(posts) |->
                        IF posts[k].h = id THEN [posts[k] EXCEPT !.cancelled = TRUE]
                        ELSE posts[k]]
    /\ UNCHANGED <<slab, breaks, sema, tick, dp, held, bstat, elapsed, nulls, alive>>

\* the chunks of a bucket (or of a size class), along sibling
RECURSIVE Members(_, _, _)
Members(M, e, fuel) ==
    IF e = NULL \/ fuel = 0 THEN <<>>
    ELSE <<e>> \o Members(M, M.ev[e].sibling, fuel - 1)

\* the chunks linked from e: each bucket along next, its members along sibling
RECURSIVE Linked(_, _, _)
Linked(M, e, fuel) ==
    IF e = NULL \/ fuel = 0 THEN <<>>
    ELSE Members(M, e, Fuel) \o Linked(M, M.ev[e].next, fuel - 1)

\* the buckets from e, along next
RECURSIVE Buckets(_, _, _)
Buckets(M, e, fuel) ==
    IF e = NULL \/ fuel = 0 THEN <<>>
    ELSE <<e>> \o Buckets(M, M.ev[e].next, fuel - 1)

\* equeue_destroy, the destructors of the pending events:
\* for (es = q->queue; es; es = es->next)
\*     for (e = q->queue; e; e = e->sibling) if (e->dtor) e->dtor(e + 1);
destroy_mem(M) ==
    LET runs(es, in, c) ==
            Len(es) * Cardinality({i \in DOMAIN in : in[i] = c /\ M.ev[c].dtor # 0})
        loops(es, in) ==
            IF Len(es) = Fuel \/ Len(in) = Fuel THEN [M EXCEPT !.ok = FALSE]
            ELSE [M EXCEPT !.ev = [c \in DOMAIN M.ev |->
                     [M.ev[c] EXCEPT !.ran = IF @ + runs(es, in, c) < 2
                                             THEN @ + runs(es, in, c) ELSE 2]]]
    IN  loops(Buckets(M, M.queue, Fuel), Members(M, M.queue, Fuel))

\* no other call is in progress when the queue is destroyed
equeue_destroy ==
    /\ Running
    /\ dp.pc = "idle"
    /\ Commit(destroy_mem(Mem), "destroy")
    /\ alive' = (hung' # "none")
    /\ UNCHANGED <<slab, breaks, sema, tick, dp, held, posts, bstat, elapsed, nulls>>

\* equeue_event_dtor on an event the caller holds
event_dtor(c) ==
    /\ Running
    /\ c \in held
    /\ ev[c].dtor = 0
    /\ ev' = equeue_event_dtor(Mem, c, 1).ev
    /\ UNCHANGED <<queue, chunks, slab, breaks, sema, tick, dp, held, hung, posts, bstat,
                   elapsed, nulls, alive>>

\* equeue_event_delay on an event the caller holds
event_delay(c, ms) ==
    /\ Running
    /\ c \in held
    /\ ev[c].target # ms
    /\ ev' = equeue_event_delay(Mem, c, ms).ev
    /\ UNCHANGED <<queue, chunks, slab, breaks, sema, tick, dp, held, hung, posts, bstat,
                   elapsed, nulls, alive>>

equeue_break ==
    /\ Running
    /\ breaks' = breaks + 1
    /\ sema' = equeue_sema_signal(sema)
    /\ bstat' = [bstat EXCEPT !.calls = @ + 1]
    /\ UNCHANGED <<ev, queue, chunks, slab, tick, dp, held, hung, posts, elapsed, nulls, alive>>

\* ------------------------------------------------------------------------
\* equeue_dispatch, one action per stretch between two points where another
\* thread can be observed.

\* unsigned timeout = equeue_tick() + ms;
dispatch_enter(ms) ==
    /\ Running
    /\ dp.pc = "idle"
    /\ dp' = [Idle EXCEPT !.pc = "drain", !.ms = ms,
                          !.timeout = IF ms >= 0 THEN ToUnsigned(tick + ms) ELSE 0]
    /\ UNCHANGED <<ev, queue, chunks, slab, breaks, sema, tick, held, hung, posts, bstat, elapsed, nulls, alive>>

\* collect all the available events and next deadline; mark them in flight
dispatch_drain ==
    /\ Running
    /\ dp.pc = "drain"
    /\ IF queue = NULL
       THEN /\ dp' = [dp EXCEPT !.pc = "fire", !.es = NULL, !.deadline = -1]
            /\ UNCHANGED <<ev, queue, chunks, hung>>
       ELSE LET done(r, A) ==
                    /\ Commit(A, "dispatch")
                    /\ dp' = IF A.ok
                             THEN [dp EXCEPT !.pc = "fire", !.es = r.head,
                                             !.deadline = r.deadline]
                             ELSE dp
                mark(r) == done(r, IF r.M.ok THEN mark_inflight(r.M, r.head, Fuel)
                                   ELSE r.M)
            IN  mark(equeue_dequeue(Mem, -1, tick))
    /\ UNCHANGED <<slab, breaks, sema, tick, held, posts, bstat, elapsed, nulls, alive>>

\* the sleep budget: if (ms >= 0) { diff = tickdiff(timeout, tick()); ... }
\* returns the dispatcher at the wait, or Idle when the call returns
dispatch_budget(d) ==
    LET diff == equeue_tickdiff(d.timeout, tick)
        deadline == IF d.ms >= 0 /\ (d.deadline < 0 \/ diff < d.deadline)
                    THEN diff ELSE d.deadline
    IN  IF d.ms >= 0 /\ diff <= 0 THEN Idle
        ELSE [d EXCEPT !.pc = "wait", !.e = NULL, !.cb = 0, !.deadline = deadline,
                       !.wstart = IF deadline >= 0 THEN tick ELSE 0]

\* while (es) { e = es; es = e->next; cb = e->cb; ...   or, the list being
\* empty, the sleep budget
dispatch_next ==
    /\ Running
    /\ dp.pc = "fire"
    /\ dp' = IF dp.es = NULL
             THEN dispatch_budget(dp)
             ELSE [dp EXCEPT !.pc = IF ev[dp.es].cb # 0 THEN "invoke" ELSE "retire",
                             !.e = dp.es,
                             !.es = ev[dp.es].next,
                             !.cb = ev[dp.es].cb,
                             !.obs = IF ev[dp.es].cb # 0 /\ posts[ev[dp.es].cb].cancelled
                                     THEN {"missed"} ELSE {}]
    /\ UNCHANGED <<ev, queue, chunks, slab, breaks, sema, tick, held, hung, posts, bstat, elapsed, nulls, alive>>

Waiting(j) == posts[j].oneshot /\ ~posts[j].discard /\ posts[j].fired = 0 /\ ~posts[j].cancelled

\* What an observer of the callback's start records about it ("missed": the
\* cancel of the posting had returned before the dispatcher read cb).
Observe(k) ==
    (IF posts[k].cancelled THEN {"cancelled"} ELSE {})
    \cup (IF posts[k].oneshot /\ posts[k].fired > 0 THEN {"again"} ELSE {})
    \cup (IF posts[k].oneshot /\ equeue_tickdiff(tick, posts[k].due) < 0
          THEN {"early"} ELSE {})
    \cup (IF posts[k].oneshot /\ \E j \in 1 .. Len(posts) :
                j # k /\ Waiting(j) /\ equeue_tickdiff(posts[j].due, posts[k].due) < 0
          THEN {"order"} ELSE {})
    \cup (IF posts[k].oneshot /\ ~posts[k].cancelled /\ \E j \in 1 .. k - 1 :
                Waiting(j) /\ posts[j].due = posts[k].due
          THEN {"fifo"} ELSE {})

\* if (cb) cb(e + 1): the callback starts
dispatch_invoke ==
    /\ Running
    /\ dp.pc = "invoke"
    /\ dp' = [dp EXCEPT !.pc = "call", !.obs = dp.obs \cup Observe(dp.cb)]
    /\ posts' = [posts EXCEPT ![dp.cb].fired = IF @ < 2 THEN @ + 1 ELSE @]
    /\ UNCHANGED <<ev, queue, chunks, slab, breaks, sema, tick, held, hung, bstat, elapsed, nulls, alive>>

\* the callback has returned (or there was none):
\* if (e->period >= 0) ... else { e->id = equeue_incid(q, -e->id); equeue_dealloc(q, e+1); }
dispatch_retire ==
    /\ Running
    /\ dp.pc \in {"call", "retire"}
    /\ IF ev[dp.e].period >= 0
       THEN /\ dp' = [dp EXCEPT !.pc = "rearm", !.per = ev[dp.e].period, !.obs = {}]
            /\ UNCHANGED <<ev, queue, chunks, hung>>
       ELSE /\ Commit(dealloc_mem([Mem EXCEPT !.ev[dp.e].id = equeue_incid(-ev[dp.e].id)], dp.e),
                    "dispatch")
            /\ dp' = IF hung' # "none" THEN dp
                     ELSE [dp EXCEPT !.pc = "fire", !.e = NULL, !.cb = 0, !.obs = {}]
    /\ UNCHANGED <<slab, breaks, sema, tick, held, posts, bstat, elapsed, nulls, alive>>

\* lock; e->id = -e->id; equeue_enqueue(q, e, e->period); unlock; signal.
\* e->period is read again after the lock is taken, without synchronisation
\* with a cancel that ran since the test: either value may be used.
dispatch_rearm ==
    /\ Running
    /\ dp.pc = "rearm"
    /\ \E ms \in {dp.per, ev[dp.e].period} :
           Commit(equeue_enqueue([Mem EXCEPT !.ev[dp.e].id = -ev[dp.e].id], dp.e, ms, tick),
                  "dispatch")
    /\ sema' = IF hung' # "none" THEN sema ELSE equeue_sema_signal(sema)
    /\ dp' = IF hung' # "none" THEN dp ELSE [dp EXCEPT !.pc = "fire", !.e = NULL, !.cb = 0, !.per = -1]
    /\ UNCHANGED <<slab, breaks, tick, held, posts, bstat, elapsed, nulls, alive>>

\* equeue_sema_wait(&q->eventsema, deadline) returns: a signal is taken, or
\* the timeout has passed
dispatch_wait ==
    /\ Running
    /\ dp.pc = "wait"
    /\ \/ /\ sema > 0
          /\ sema' = sema - 1
       \/ /\ sema = 0
          /\ dp.deadline >= 0
          /\ equeue_tickdiff(tick, dp.wstart) >= dp.deadline
          /\ sema' = sema
    /\ dp' = [dp EXCEPT !.pc = "brk", !.wstart = 0, !.deadline = -1]
    /\ UNCHANGED <<ev, queue, chunks, slab, breaks, tick, held, hung, posts, bstat, elapsed, nulls, alive>>

\* dispatch_break without q->breaks--
dispatch_break_keep ==
    /\ Running
    /\ dp.pc = "brk"
    /\ breaks' = breaks
    /\ dp' = IF breaks > 0 THEN Idle ELSE [dp EXCEPT !.pc = "drain"]
    /\ bstat' = IF breaks > 0 THEN [bstat EXCEPT !.rets = @ + 1] ELSE bstat
    /\ UNCHANGED <<ev, queue, chunks, slab, sema, tick, held, hung, posts, elapsed, nulls, alive>>

\* check if we were notified to break out of dispatch
dispatch_break ==
    /\ Running
    /\ dp.pc = "brk"
    /\ IF breaks > 0
       THEN /\ breaks' = breaks - 1
            /\ dp' = Idle
            /\ bstat' = [bstat EXCEPT !.rets = @ + 1]
       ELSE /\ breaks' = breaks
            /\ dp' = [dp EXCEPT !.pc = "drain"]
            /\ bstat' = bstat
    /\ UNCHANGED <<ev, queue, chunks, slab, sema, tick, held, hung, posts, elapsed, nulls, alive>>

\* ------------------------------------------------------------------------

Offsets == 0 .. BufSize - 1

Dispatcher(mss) ==
    \/ \E ms \in mss : dispatch_enter(ms)
    \/ dispatch_drain
    \/ dispatch_next
    \/ dispatch_invoke
    \/ dispatch_retire
    \/ dispatch_wait
    \/ dispatch_break

\* One-shot events posted with equeue_call_in, cancelled, and dispatched by
\* dispatch(-1) or dispatch(MaxDispatchMs), with breaks.
Next ==
    \/ elapsed < MaxElapsed /\ equeue_tick
    \/ Len(posts) < MaxPosts /\ \E ms \in Delays : equeue_call_in(ms)
    \/ \E id \in Handles : equeue_cancel(id)
    \/ bstat.calls < MaxBreaks /\ equeue_break
    \/ Dispatcher(DispatchMs)

Spec == Init /\ [][Next]_vars

\* alloc, dealloc and post of held chunks, one-shot and periodic events,
\* cancel, and dispatch(-1).
NextApi ==
    \/ elapsed < MaxElapsed /\ equeue_tick
    \/ Cardinality(held) < MaxHeld /\ \E n \in PayloadSizes : equeue_alloc(n)
    \/ \E c \in Offsets : equeue_dealloc(c)
    \/ Len(posts) < MaxApiPosts /\ \E c \in Offsets : equeue_post(c)
    \/ Len(posts) < MaxApiPosts /\ \E ms \in Delays : equeue_call_in(ms)
    \/ Len(posts) < MaxApiPosts /\ \E ms \in Periods : equeue_call_every(ms)
    \/ \E id \in Handles : equeue_cancel(id)
    \/ Dispatcher({-1})
    \/ dispatch_rearm

SpecApi == Init /\ [][NextApi]_vars

\* Breaks against a dispatcher with a one-shot or a period-0 event.
NextBreak ==
    \/ elapsed < MaxElapsed /\ equeue_tick
    \/ Len(posts) < MaxBreakPosts /\ \E ms \in Delays : equeue_call_in(ms)
    \/ Len(posts) < MaxBreakPosts /\ \E ms \in Periods : equeue_call_every(ms)
    \/ bstat.calls < MaxBreakCalls /\ equeue_break
    \/ Dispatcher(DispatchMs)
    \/ dispatch_rearm

SpecBreak == Init /\ [][NextBreak]_vars

\* Chunks posted again after they retired: one-shot events, each handle
\* cancelled at most once, dispatched by dispatch(-1).
NextReuse ==
    \/ elapsed < MaxElapsed /\ equeue_tick
    \/ Len(posts) < MaxReusePosts /\ \E ms \in Delays : equeue_call_in(ms)
    \/ \E k \in 1 .. Len(posts) : ~posts[k].cancelled /\ equeue_cancel(posts[k].h)
    \/ Dispatcher({-1})

SpecReuse == Init /\ [][NextReuse]_vars

\* The allocator: chunks of several sizes allocated until the buffer is
\* exhausted, released, posted and fired.
NextMem ==
    \/ Cardinality(held) < MaxMemHeld /\ \E n \in MemSizes : equeue_alloc(n)
    \/ Cardinality(held) = MaxMemHeld /\ nulls = 0 /\ \E n \in MemSizes : equeue_alloc(n)
    \/ \E c \in Offsets : equeue_dealloc(c)
    \/ Len(posts) < MaxMemPosts /\ \E c \in Offsets : equeue_post(c)
    \/ Dispatcher({-1})

SpecMem == Init /\ [][NextMem]_vars

\* Posts with a negative delay among the others, and cancels of the handles
\* they returned.
NextDiscard ==
    \/ Len(posts) < MaxDiscardPosts /\ \E ms \in {-1} \cup Delays : equeue_call_in(ms)
    \/ \E id \in Handles : equeue_cancel(id)
    \/ Dispatcher({-1})

SpecDiscard == Init /\ [][NextDiscard]_vars

\* Chunks posted, fired and posted again until their generation wraps.
NextCycle ==
    \/ equeue_tick /\ elapsed < MaxElapsed
    \/ Len(posts) < MaxCyclePosts /\ \E ms \in Delays : equeue_call_in(ms)
    \/ Dispatcher({-1})

SpecCycle == Init /\ [][NextCycle]_vars

\* Events with a destructor, posted, fired, discarded, and the queue
\* destroyed with events pending.
NextDestroy ==
    \/ equeue_tick /\ elapsed < MaxElapsed
    \/ Cardinality(held) < MaxHeld /\ \E n \in PayloadSizes : equeue_alloc(n)
    \/ \E c \in Offsets : event_dtor(c)
    \/ \E c \in Offsets, ms \in {-1} \cup Delays : event_delay(c, ms)
    \/ Len(posts) < MaxDestroyPosts /\ \E c \in Offsets : equeue_post(c)
    \/ Dispatcher(DispatchMs)
    \/ equeue_destroy

SpecDestroy == Init /\ [][NextDestroy]_vars

\* Periodic events among one-shot ones, fired, re-armed and cancelled.
NextPeriodic ==
    \/ equeue_tick /\ elapsed < MaxElapsed
    \/ Len(posts) < MaxPeriodicPosts /\ \E ms \in Delays : equeue_call_in(ms)
    \/ Len(posts) < MaxPeriodicPosts /\ \E ms \in Periods : equeue_call_every(ms)
    \/ \E id \in Handles : equeue_cancel(id)
    \/ Dispatcher({-1})
    \/ dispatch_rearm

SpecPeriodic == Init /\ [][NextPeriodic]_vars

\* ------------------------------------------------------------------------
\* Properties.

Abs(x) == IF x < 0 THEN -x ELSE x

\* the largest generation: the id field holds IntBits - 1 - npw2 bits of it
GenMax == 2 ^ (IntBits - 1 - npw2) - 1

NextGen(g) == IF g >= GenMax THEN 1 ELSE g + 1

\* the dispatcher is running the callback of posting k
InCallback(k) == dp.pc = "call" /\ dp.cb = k

\* every posting that produced handle h has been cancelled, or was a
\* one-shot whose callback has run and returned
StaleHandle(h) ==
    \A k \in 1 .. Len(posts) :
        posts[k].h = h =>
            \/ posts[k].cancelled
            \/ posts[k].oneshot /\ posts[k].fired > 0 /\ ~InCallback(k)

Range(f) == {f[i] : i \in DOMAIN f}

FreeSeq == Linked(Mem, chunks, Fuel)

QueueSeq == Linked(Mem, queue, Fuel)

\* the memory after the step
MemNext == [ev |-> ev', queue |-> queue', chunks |-> chunks', head |-> NULL, ok |-> TRUE]

\* the events reachable from q->queue after the step
QueueSeqNext == Linked(MemNext, queue', Fuel)

NoDup(f) == \A i, j \in DOMAIN f : i # j => f[i] # f[j]

\* C1: once cancel(h) has returned, the dispatcher never starts the callback
\* of the posting h names: no callback is running that the dispatcher read
\* from the event after the cancel of its posting had returned.
C1_CancelledNeverStarts == ~(dp.pc = "call" /\ "missed" \in dp.obs)

\* C2: cancel(h) with a stale handle (its posting already fired or already
\* cancelled) is a no-op: it changes no event header (id, cb, period, links),
\* not the pending queue and not the freelist.
C2_StaleCancelNoOp ==
    [][\A h \in Handles :
          (StaleHandle(h) /\ equeue_cancel(h)) => UNCHANGED <<ev, queue, chunks>>]_vars

\* C3: a one-shot event posted at tick p with delay d is never started at a
\* tick t with (int)(t - (p + d)) < 0.
C3_NeverEarly == ~(dp.pc = "call" /\ "early" \in dp.obs)

\* C4: the callback of a one-shot event is never started a second time.
C4_AtMostOnce == ~(dp.pc = "call" /\ "again" \in dp.obs)

\* C5: the dispatcher never starts a one-shot event while another posted,
\* uncancelled, unfired one-shot has an earlier target (modular comparison).
C5_IncreasingTarget == ~(dp.pc = "call" /\ "order" \in dp.obs)

\* C6: events with the same target start in the order they were posted: no
\* uncancelled event starts while an uncancelled event posted before it for
\* the same target has not started.
C6_BucketFifo == ~(dp.pc = "call" /\ "fifo" \in dp.obs)

\* C7: every return of dispatch by the break check takes exactly one break:
\* the counter is never negative and equals the calls of break() less the
\* returns by break, so n calls allow at most n returns.
C7_BreakConsumption == breaks >= 0 /\ breaks = bstat.calls - bstat.rets

\* C7, its case: two breaks were requested and two dispatch calls returned
\* by them, leaving breaks = 0.
C7_Witness == bstat.calls = 2 /\ bstat.rets = 2 /\ breaks = 0 /\ dp.pc = "idle"

\* C8: a dispatch(-1) call with a break pending returns: it is never inside
\* a step that does not end while a break is pending.
C8_BreakReturns == ~(hung = "dispatch" /\ dp.ms < 0 /\ breaks > 0)

\* C9: a dispatch(ms) call with ms >= 0 returns: it is never inside a step
\* that does not end.
C9_TimedDispatchReturns == ~(hung = "dispatch" /\ dp.ms >= 0)

\* a step retires chunk c: the dispatcher finishes a one-shot on it, or a
\* cancel finds it queued under the generation of the handle
Retires(c) ==
    \/ dp.e = c /\ dp.pc \in {"call", "retire"} /\ dp'.pc = "fire"
    \/ \E h \in Handles : /\ equeue_cancel(h)
                          /\ HandleOffset(h) = c
                          /\ ev[c].id > 0
                          /\ h = MakeHandle(ev[c].id, c)

\* C10: a chunk carved from the slab has generation 1; the generation of a
\* chunk steps to the next one (1 after the largest) on each retirement and
\* is unchanged by every other step.
C10_GenerationProtocol ==
    [][/\ \A c \in DOMAIN ev' \ DOMAIN ev : ev'[c].id = 1
       /\ \A c \in DOMAIN ev :
            Abs(ev'[c].id) = IF Retires(c) THEN NextGen(Abs(ev[c].id))
                             ELSE Abs(ev[c].id)]_vars

\* neither a chunk of the freelist nor the rest of the slab holds the
\* rounded request
Exhausted(n) ==
    /\ slab.size < RoundSize(n)
    /\ \A c \in Range(FreeSeq) : ev[c].size < RoundSize(n)

\* C11: alloc(n) returns null exactly when no chunk of the freelist and not
\* the rest of the slab holds the rounded request; a null alloc changes
\* neither the freelist nor the slab; and once a chunk that holds the
\* request is deallocated, the next alloc of that size returns that chunk.
C11_AllocExhaustion ==
    [][/\ \A n \in MemSizes :
            equeue_alloc(n) =>
                /\ (nulls' # nulls) <=> Exhausted(n)
                /\ (nulls' # nulls) => UNCHANGED <<ev, chunks, slab, held>>
       /\ \A c \in held :
            equeue_dealloc(c) =>
                \A n \in MemSizes :
                    (Exhausted(n) /\ RoundSize(n) <= ev[c].size)
                        => alloc_mem(MemNext, slab', n).e = c]_vars

\* C11, its case: an alloc has returned null with every chunk of the buffer
\* held and the slab used up.
C11_Witness ==
    /\ nulls = 1
    /\ FreeSeq = <<>>
    /\ slab.size < RoundSize(1)
    /\ Cardinality(held) = MaxMemHeld

\* C12: a post with a negative delay discards the event, and the handle it
\* returns is stale: a cancel of that handle, no other posting having
\* returned the same handle, changes nothing in the queue, the freelist or
\* any chunk.
C12_DiscardedHandleStale ==
    [][\A k \in 1 .. Len(posts) :
          (/\ posts[k].discard
           /\ \A j \in 1 .. Len(posts) : j # k => posts[j].h # posts[k].h
           /\ equeue_cancel(posts[k].h))
          => UNCHANGED <<ev, queue, chunks>>]_vars

\* C13: the handle a post returns is strictly positive and decodes back to
\* the offset of the posted chunk and to its generation; the generation of
\* every chunk, negated or not, stays in 1 .. GenMax, the increment wrapping
\* to 1 before the handle reaches the sign bit.
C13_HandleEncoding ==
    [][/\ Len(posts') > Len(posts) =>
            LET p == posts'[Len(posts')] IN
            /\ p.h > 0
            /\ HandleOffset(p.h) = p.e
            /\ Shr(p.h, npw2) = ev'[p.e].id
       /\ \A c \in DOMAIN ev' : Abs(ev'[c].id) \in 1 .. GenMax]_vars

\* C14: the destructor of an event runs at most once, and once the queue is
\* destroyed the destructor of every event that was pending, bucket head or
\* sibling, has run exactly once.
C14_DestructorOnce ==
    /\ \A c \in DOMAIN ev : ev[c].ran <= 1
    /\ ~alive => \A c \in Range(QueueSeq) : ev[c].dtor # 0 => ev[c].ran = 1

\* C15: a periodic event is re-armed after each firing until it is
\* cancelled, and its handle cancels it after any number of firings: once
\* cancel(h) has returned, the dispatcher does not start the callback of the
\* periodic posting h again.
C15_PeriodicCancel ==
    ~(dp.pc = "call" /\ ~posts[dp.cb].oneshot /\ "missed" \in dp.obs)

\* C16: cancel(h) of a queued event removes exactly that event: the events
\* reachable from the queue afterwards are those reachable before without
\* the cancelled one, each reachable once and with its target unchanged.
C16_CancelRemovesOne ==
    [][\A h \in Handles :
          (/\ NoDup(QueueSeq)
           /\ HandleOffset(h) \in Range(QueueSeq)
           /\ ev[HandleOffset(h)].id = Shr(h, npw2)
           /\ equeue_cancel(h))
          => /\ NoDup(QueueSeqNext)
             /\ Range(QueueSeqNext) = Range(QueueSeq) \ {HandleOffset(h)}
             /\ \A c \in Range(QueueSeqNext) : ev'[c].target = ev[c].target]_vars

\* the bucket heads of the queue, soonest first
QueueBuckets == Buckets(Mem, queue, Fuel)

\* C17: along next the targets of the bucket heads strictly increase (in
\* the modular order of equeue_tickdiff), and every sibling of a bucket has
\* the target of its head.
C17_QueueOrdered ==
    /\ \A i \in 1 .. Len(QueueBuckets) - 1 :
           equeue_tickdiff(ev[QueueBuckets[i + 1]].target, ev[QueueBuckets[i]].target) > 0
    /\ \A i \in DOMAIN QueueBuckets :
           \A c \in Range(Members(Mem, QueueBuckets[i], Fuel)) :
               ev[c].target = ev[QueueBuckets[i]].target

\* the slots of the queue: q->queue, next of a bucket head, sibling of a member
QueueSlots ==
    {QSlot} \cup {NextOf(c) : c \in Range(QueueBuckets)}
            \cup {SiblingOf(c) : c \in Range(QueueSeq)}

\* C18: for every queued event e, e.ref designates the one slot of the queue
\* through which e is linked, and that slot holds e.
C18_BackPointer ==
    \A e \in Range(QueueSeq) :
        {s \in QueueSlots : Load(Mem, s) = e} = {ev[e].ref}

\* the events the dispatcher has taken off the queue and not yet retired or
\* re-armed: the one it is at and its local list es, along next
InFlightSeq ==
    (IF dp.e # NULL THEN <<dp.e>> ELSE <<>>) \o Buckets(Mem, dp.es, Fuel)

RECURSIVE SumSizes(_)
SumSizes(S) ==
    IF S = {} THEN 0
    ELSE LET c == CHOOSE x \in S : TRUE IN ev[c].size + SumSizes(S \ {c})

\* C19: every chunk carved from the buffer is in exactly one place (the
\* freelist, the queue, in flight in the dispatcher, or held by a caller),
\* and the sizes of the carved chunks and the rest of the slab add up to the
\* size of the buffer.
C19_BufferPartition ==
    /\ NoDup(FreeSeq \o QueueSeq \o InFlightSeq)
    /\ Range(FreeSeq \o QueueSeq \o InFlightSeq) \cap held = {}
    /\ Range(FreeSeq \o QueueSeq \o InFlightSeq) \cup held = DOMAIN ev
    /\ slab.size + SumSizes(DOMAIN ev) = BufSize

\* the dispatcher is in its drain, between the lock and the unlock of
\* queuelock, and does not come out of it
DrainHoldsQueueLock == hung = "dispatch" /\ dp.pc = "drain"

\* C20: every operation releases each lock it takes, so that no thread
\* blocks forever on a mutex: the dispatcher never stays in the section it
\* runs with queuelock held.
C20_LocksReleased == ~DrainHoldsQueueLock

====
